---- MODULE Spec2Model ----
(***************************************************************************)
(* Model of autonx.py: the NSHDriver (boot/prompt synchronisation, command *)
(* execution with exit-status inference, activate/deactivate life cycle).  *)
(* Text is a sequence of code points (naturals), raw console output a      *)
(* sequence of bytes.  The driver blocks only inside console.sendline and  *)
(* console.expect, so one action is one transport call together with all   *)
(* the driver code that runs up to the next transport call or return.      *)
(***************************************************************************)
EXTENDS Integers, Sequences, FiniteSets, TLC

\* ---------------------------------------------------------------- bounds
\* longest init_commands tuple the configuration is drawn from
MaxInit == 2
\* number of console fragments the "before" bytes of a command are built from
MaxPieces == 3
\* number of console fragments the "before" bytes of echo $? are built from
MaxEchoPieces == 2
\* longest text the text pipeline is applied to on its own
MaxLen == 4
\* largest size _read is called with
MaxSize == 3
\* largest timeout _read is called with
MaxWait == 1

\* ------------------------------------------------------ program constants
LoginTimeout == 60
RunTimeout == 30
\* console.expect(self.prompt) is called without a timeout argument
DefaultTimeout == 0
SubCount == 1000000
ESC == 27
CSI8 == 155
LBRACKET == 91
CR == 13
LF == 10
ErrorMarkerStatus == 255

\* ------------------------------------------------------------ text helpers
Last(s) == s[Len(s)]

DropFirst(s, n) == SubSeq(s, n + 1, Len(s))

HasPrefix(s, p) == Len(s) >= Len(p) /\ SubSeq(s, 1, Len(p)) = p

\* bytes.decode("utf-8") with errors="strict": one- and two-byte forms
RECURSIVE Decode(_)
Decode(b) ==
    IF b = <<>> THEN [ok |-> TRUE, text |-> <<>>]
    ELSE IF b[1] < 128
         THEN LET r == Decode(Tail(b))
              IN  [ok |-> r.ok, text |-> IF r.ok THEN <<b[1]>> \o r.text ELSE <<>>]
    ELSE IF /\ b[1] >= 194 /\ b[1] <= 223 /\ Len(b) >= 2
            /\ b[2] >= 128 /\ b[2] <= 191
         THEN LET r == Decode(DropFirst(b, 2))
                  cp == (b[1] - 192) * 64 + (b[2] - 128)
              IN  [ok |-> r.ok, text |-> IF r.ok THEN <<cp>> \o r.text ELSE <<>>]
    ELSE [ok |-> FALSE, text |-> <<>>]

\* the class [@-_a-z] of re_vt100
IsFinal(c) == (c >= 64 /\ c <= 95) \/ (c >= 97 /\ c <= 122)

\* the introducer written (\x1b)?\[|\x9b: a bare "[" introduces too
IntroLen_BareBracket(t) ==
    IF Len(t) >= 2 /\ t[1] = ESC /\ t[2] = LBRACKET THEN 2
    ELSE IF Len(t) >= 1 /\ t[1] \in {CSI8, LBRACKET} THEN 1
    ELSE 0

\* length of the introducer (\x1b\[|\x9b) at the head of t, 0 when absent
IntroLen(t) ==
    IF Len(t) >= 2 /\ t[1] = ESC /\ t[2] = LBRACKET THEN 2
    ELSE IF Len(t) >= 1 /\ t[1] = CSI8 THEN 1
    ELSE 0

\* length of the match of re_vt100 anchored at the head of t, 0 when none:
\* first alternative introducer [^@-_a-z]* [@-_a-z], else \x1b[@-_a-z]
MatchLen(t) ==
    LET i == IntroLen(t)
        finals == {k \in (i + 1)..Len(t) : IsFinal(t[k])}
    IN  IF i > 0 /\ finals # {}
        THEN CHOOSE k \in finals : \A j \in finals : k <= j
        ELSE IF Len(t) >= 2 /\ t[1] = ESC /\ IsFinal(t[2]) THEN 2
        ELSE 0

\* re_vt100.sub("", t, count=n)
RECURSIVE Sub(_, _)
Sub(t, n) ==
    IF t = <<>> \/ n = 0 THEN t
    ELSE LET m == MatchLen(t)
         IN  IF m > 0 THEN Sub(DropFirst(t, m), n - 1)
             ELSE <<t[1]>> \o Sub(Tail(t), n)

Filter(t) == Sub(t, SubCount)

\* str.replace("\r", "")
StripCR(t) == SelectSeq(t, LAMBDA c : c # CR)

\* str.split("\n")
RECURSIVE SplitLines(_)
SplitLines(t) ==
    LET nl == {k \in 1..Len(t) : t[k] = LF}
    IN  IF nl = {} THEN <<t>>
        ELSE LET k == CHOOSE x \in nl : \A y \in nl : x <= y
             IN  <<SubSeq(t, 1, k - 1)>> \o SplitLines(DropFirst(t, k))

\* re_vt100.sub(...).replace("\r", "").split("\n") of decoded text
LinesOf(text) == SplitLines(StripCR(Filter(text)))

\* data[1:] in place of data[1:-1]
Demarcate_KeepLast(lines) == SubSeq(lines, 2, Len(lines))

\* data[1:-1]
Demarcate(lines) == SubSeq(lines, 2, Len(lines) - 1)

\* ------------------------------------------------------------- int(str)
IsSpace(c) == c \in {9, 10, 11, 12, 13, 32, 133, 160}

IsDigit(c) == c >= 48 /\ c <= 57

RECURSIVE LStrip(_)
LStrip(s) == IF s # <<>> /\ IsSpace(s[1]) THEN LStrip(Tail(s)) ELSE s

RECURSIVE RStrip(_)
RStrip(s) ==
    IF s # <<>> /\ IsSpace(Last(s)) THEN RStrip(SubSeq(s, 1, Len(s) - 1)) ELSE s

\* digits, single underscores allowed between digits
DigitsOk(d) ==
    /\ d # <<>>
    /\ IsDigit(d[1]) /\ IsDigit(Last(d))
    /\ \A k \in 1..Len(d) : IsDigit(d[k]) \/ d[k] = 95
    /\ \A k \in 1..(Len(d) - 1) : ~(d[k] = 95 /\ d[k + 1] = 95)

RECURSIVE DigitsVal(_)
DigitsVal(d) ==
    IF d = <<>> THEN 0
    ELSE IF Last(d) = 95 THEN DigitsVal(SubSeq(d, 1, Len(d) - 1))
    ELSE DigitsVal(SubSeq(d, 1, Len(d) - 1)) * 10 + (Last(d) - 48)

\* int(s): [ok, val]; ok = FALSE is ValueError
IntParse(s) ==
    LET t == RStrip(LStrip(s))
        signed == t # <<>> /\ t[1] \in {43, 45}
        d == IF signed THEN Tail(t) ELSE t
    IN  IF DigitsOk(d)
        THEN [ok |-> TRUE,
              val |-> IF signed /\ t[1] = 45 THEN 0 - DigitsVal(d) ELSE DigitsVal(d)]
        ELSE [ok |-> FALSE, val |-> 0]

\* r_not_found.match(line) for r"nsh: .*: "
NshPrefix == <<110, 115, 104, 58, 32>>

NotFoundMatch(line) ==
    /\ HasPrefix(line, NshPrefix)
    /\ \E j \in 6..(Len(line) - 1) : line[j] = 58 /\ line[j + 1] = 32


\* ------------------------------------------------- console output (inputs)
\* fragments the console may deliver: "OK", CRLF, "0", "7", "-",
\* "nsh: x: ", and a byte that is not valid UTF-8
Pieces ==
    { <<79, 75>>, <<13, 10>>, <<48>>, <<55>>, <<45>>,
      <<110, 115, 104, 58, 32, 120, 58, 32>>, <<255>> }

RECURSIVE Flat(_)
Flat(ps) == IF ps = <<>> THEN <<>> ELSE ps[1] \o Flat(Tail(ps))

\* "echo OK\r\nOK\r\n", "echo $?\r\n0\r\n", "echo $?\r\n$?\r\n",
\* "badcmd\r\nnsh: badcmd: command not found\r\n",
\* "ls\r\n" ESC "[31mHello" ESC "[0m\r\n"
CapEchoOK == <<101, 99, 104, 111, 32, 79, 75, 13, 10, 79, 75, 13, 10>>

CapStatus0 == <<101, 99, 104, 111, 32, 36, 63, 13, 10, 48, 13, 10>>

CapNoStatus == <<101, 99, 104, 111, 32, 36, 63, 13, 10, 36, 63, 13, 10>>

CapNotFound ==
    <<98, 97, 100, 99, 109, 100, 13, 10,
      110, 115, 104, 58, 32, 98, 97, 100, 99, 109, 100, 58, 32,
      99, 111, 109, 109, 97, 110, 100, 32, 110, 111, 116, 32,
      102, 111, 117, 110, 100, 13, 10>>

CapColour ==
    <<108, 115, 13, 10, 27, 91, 51, 49, 109, 72, 101, 108, 108, 111,
      27, 91, 48, 109, 13, 10>>

\* "echo $?\r\n-7\r\n"
CapNegStatus == <<101, 99, 104, 111, 32, 36, 63, 13, 10, 45, 55, 13, 10>>

Examples ==
    {CapEchoOK, CapStatus0, CapNoStatus, CapNotFound, CapColour, CapNegStatus}

Fragments(m) == {Flat(ps) : ps \in UNION {[1..n -> Pieces] : n \in 0..m}}

\* the "before" bytes the expect after a command may hand back
Captures == Fragments(MaxPieces) \cup Examples

\* the "before" bytes the expect after echo $? may hand back
EchoCaptures == Fragments(MaxEchoPieces) \cup Examples

\* what _run computes from the command's "before" bytes
CmdCapture ==
    [b \in Captures |->
        LET dec == Decode(b)
        IN  [ok |-> dec.ok,
             data |-> IF dec.ok THEN Demarcate(LinesOf(dec.text)) ELSE <<>>]]

\* commands a caller passes to run(); init command i is the number i
Cmds == {0}

\* ------------------------------------------------------------------ state
VARIABLES
    status,         \* self._status
    chan,           \* the console's channel: "open" or "closed"
    init_commands,  \* self.init_commands
    op,             \* the public method being (or last) executed
    pc,             \* the transport call the driver is about to make, or "idle"
    initIdx,        \* position of the init_commands loop in _await_prompt
    cmd,            \* _run's cmd
    before,         \* _run's before (the match event's bytes)
    data,           \* _run's data
    caught,         \* the exception the bare except of _run swallowed
    outcome,        \* what the public method gave its caller
    trace,          \* transport calls made by the current public call
    initCount,      \* per init command: submissions since the last deactivate
    errors,         \* logger.error calls made by the current activation
    \* the text pipeline of _run applied to one text on its own
    ftext,          \* the decoded text
    fonce,          \* re_vt100.sub("", ftext)
    ftwice,         \* re_vt100.sub("", fonce)
    flines,         \* the lines _run keeps of ftext
    fpc,            \* "off", "input", "once", "twice" or "done"
    \* one call of SimConsoleDriver._read
    child,          \* self._child: "running" or "exited"
    rsize,          \* _read's size
    rtimeout,       \* _read's timeout
    pending,        \* _read's pending
    res,            \* _read's res
    polls,          \* the calls of self._poll.poll: timeout and answer
    reads,          \* the sizes self._child.stdout.read was called with
    rret,           \* what _read gave its caller
    rpc             \* "off", "call", "read1", "poll", "read2" or "done"

driverVars ==
    <<status, chan, init_commands, op, pc, initIdx, cmd, before, data, caught,
      outcome, trace, initCount, errors>>

filterVars == <<ftext, fonce, ftwice, flines, fpc>>

readVars == <<child, rsize, rtimeout, pending, res, polls, reads, rret, rpc>>

vars == <<driverVars, filterVars, readVars>>

Out(k, l, st) == [kind |-> k, lines |-> l, aux |-> <<>>, status |-> st]

Pending == Out("pending", <<>>, 0)

Returned == Out("returned", <<>>, 0)

NotReady == Out("NotReady", <<>>, 0)

Exc(e) == Out(e, <<>>, 0)

Called(c, w, n, r) == Append(trace, [call |-> c, what |-> w, num |-> n, res |-> r])

SendResults == IF chan = "open" THEN {"ok", "TransportError"} ELSE {"TransportError"}

ExpectResults ==
    IF chan = "open" THEN {"match", "TimeoutError", "TransportError"}
    ELSE {"TransportError"}

ChanAfter(r) == IF r = "TransportError" THEN "closed" ELSE chan

\* a read of the child's pipe: None, or the bytes read
NoData == [none |-> TRUE, bytes |-> <<>>]

Data(b) == [none |-> FALSE, bytes |-> b]

\* the text pipeline is not in use
FilterOff ==
    /\ ftext = <<>>
    /\ fonce = <<>>
    /\ ftwice = <<>>
    /\ flines = <<>>
    /\ fpc = "off"

\* _read is not in use
ReadOff ==
    /\ child = "running"
    /\ rsize = 0
    /\ rtimeout = 0
    /\ pending = NoData
    /\ res = NoData
    /\ polls = <<>>
    /\ reads = <<>>
    /\ rret = [kind |-> "pending", bytes |-> <<>>]
    /\ rpc = "off"

DriverInit ==
    /\ status = 0
    /\ chan = "open"
    /\ init_commands \in {[i \in 1..n |-> i] : n \in 0..MaxInit}
    /\ op = "none"
    /\ pc = "idle"
    /\ initIdx = 0
    /\ cmd = 0
    /\ before = <<>>
    /\ data = <<>>
    /\ caught = "none"
    /\ outcome = Pending
    /\ trace = <<>>
    /\ initCount = [i \in 1..Len(init_commands) |-> 0]
    /\ errors = 0

Init == DriverInit /\ FilterOff /\ ReadOff

\* ------------------------------------------------------------ driver code
\* the readiness check left out
NotCommandLineMode_NoCheck(s) == FALSE

\* _run: "if self._status != 1: return None"
NotCommandLineMode(s) == s # 1

\* the state check left out
MustAwaitPrompt_Always(s) == TRUE

\* on_activate: "if self._status == 0"
MustAwaitPrompt(s) == s = 0

\* "self._status = 1" placed before the expect it follows
BootStatus_Early(r) == 1

\* _await_prompt: _status after expect(boot_expression) ended with r
BootStatus(r) == IF r = "match" THEN 1 ELSE status

\* "except ValueError:" in place of the bare except
Catches_ValueErrorOnly(e) == e = "ValueError"

\* _run: the bare "except:" around the echo $? round trip
Catches(e) == TRUE

\* _run, after the except: on a marker line rsp is assigned (and not
\* returned); the return statement that follows gives -1 either way
FallbackStatus(d) ==
    LET marker == Len(d) # 0 /\ NotFoundMatch(Last(d))
        rsp == ErrorMarkerStatus
    IN  IF marker THEN 0 - 1 ELSE 0 - 1

\* int(ret_data[-1]) in place of int(ret_data[-2])
EchoStatus_LastLine(ret_data) ==
    LET p == IntParse(Last(ret_data))
    IN  IF p.ok THEN [exc |-> "none", val |-> p.val]
        ELSE [exc |-> "ValueError", val |-> 0]

\* _run: int(ret_data[-2])
EchoStatus(ret_data) ==
    IF Len(ret_data) < 2 THEN [exc |-> "IndexError", val |-> 0]
    ELSE LET p == IntParse(ret_data[Len(ret_data) - 1])
         IN  IF p.ok THEN [exc |-> "none", val |-> p.val]
             ELSE [exc |-> "ValueError", val |-> 0]

\* what _run's try block computes from the "before" bytes of echo $?
EchoCapture ==
    [b \in EchoCaptures |->
        LET dec == Decode(b)
        IN  IF dec.ok THEN EchoStatus(LinesOf(dec.text))
            ELSE [exc |-> "UnicodeDecodeError", val |-> 0]]

\* _status reset to 0 when an exception leaves the method
Raise_ResetStatus(e) ==
    /\ pc' = "idle"
    /\ outcome' = Exc(e)
    /\ status' = 0
    /\ UNCHANGED <<init_commands, op, initIdx, cmd, data, caught, errors>>

\* an exception leaves the public method; _status keeps its value
Raise(e) ==
    /\ pc' = "idle"
    /\ outcome' = Exc(e)
    /\ UNCHANGED <<status, init_commands, op, initIdx, cmd, data, caught, errors>>

\* the loop of _await_prompt raising on "err != 0" instead of logging it
Finish_AbortOnError(d, st, c) ==
    IF op = "run"
    THEN /\ pc' = "idle"
         /\ outcome' = Out("result", d, st)
         /\ data' = d
         /\ caught' = c
         /\ UNCHANGED <<initIdx, cmd, errors>>
    ELSE /\ errors' = IF st # 0 THEN errors + 1 ELSE errors
         /\ data' = <<>>
         /\ caught' = "none"
         /\ IF st = 0 /\ initIdx < Len(init_commands)
            THEN /\ initIdx' = initIdx + 1
                 /\ cmd' = init_commands[initIdx + 1]
                 /\ pc' = "cmd_send"
                 /\ outcome' = outcome
            ELSE /\ pc' = "idle"
                 /\ outcome' = IF st = 0 THEN Returned ELSE Exc("ExecutionError")
                 /\ UNCHANGED <<initIdx, cmd>>

\* _run returns (d, [], st): to run()'s caller, or into the init_commands loop
Finish(d, st, c) ==
    IF op = "run"
    THEN /\ pc' = "idle"
         /\ outcome' = Out("result", d, st)
         /\ data' = d
         /\ caught' = c
         /\ UNCHANGED <<initIdx, cmd, errors>>
    ELSE /\ errors' = IF st # 0 THEN errors + 1 ELSE errors
         /\ data' = <<>>
         /\ caught' = "none"
         /\ IF initIdx < Len(init_commands)
            THEN /\ initIdx' = initIdx + 1
                 /\ cmd' = init_commands[initIdx + 1]
                 /\ pc' = IF NotCommandLineMode(status) THEN "idle" ELSE "cmd_send"
                 /\ outcome' = IF NotCommandLineMode(status) THEN Exc("TypeError")
                               ELSE outcome
            ELSE /\ pc' = "idle"
                 /\ outcome' = Returned
                 /\ UNCHANGED <<initIdx, cmd>>

\* the echo $? round trip failed with e
EchoFailed(e) ==
    IF Catches(e)
    THEN /\ Finish(data, FallbackStatus(data), e)
         /\ UNCHANGED <<status, init_commands, op>>
    ELSE /\ pc' = "idle"
         /\ outcome' = Exc(e)
         /\ UNCHANGED <<status, init_commands, op, initIdx, cmd, data, caught, errors>>

\* on_activate going straight to the prompt
Activate_SkipsBoot ==
    /\ pc = "idle"
    /\ op' = "activate"
    /\ trace' = <<>>
    /\ before' = <<>>
    /\ data' = <<>>
    /\ caught' = "none"
    /\ errors' = 0
    /\ initIdx' = 0
    /\ IF MustAwaitPrompt(status)
       THEN pc' = "prompt" /\ outcome' = Pending
       ELSE pc' = "idle" /\ outcome' = Returned
    /\ UNCHANGED <<status, chan, init_commands, cmd, initCount>>
    /\ UNCHANGED <<filterVars, readVars>>

\* on_activate
Activate ==
    /\ pc = "idle"
    /\ op' = "activate"
    /\ trace' = <<>>
    /\ before' = <<>>
    /\ data' = <<>>
    /\ caught' = "none"
    /\ errors' = 0
    /\ initIdx' = 0
    /\ IF MustAwaitPrompt(status)
       THEN pc' = "boot" /\ outcome' = Pending
       ELSE pc' = "idle" /\ outcome' = Returned
    /\ UNCHANGED <<status, chan, init_commands, cmd, initCount>>
    /\ UNCHANGED <<filterVars, readVars>>

\* _await_prompt: console.expect(self.boot_expression, timeout=self.login_timeout)
\* and "self._status = 1"
ExpectBoot ==
    /\ pc = "boot"
    /\ \E r \in ExpectResults :
        /\ trace' = Called("expect", "boot_expression", LoginTimeout, r)
        /\ chan' = ChanAfter(r)
        /\ IF r = "match"
           THEN /\ status' = BootStatus(r)
                /\ pc' = "prompt"
                /\ UNCHANGED <<init_commands, op, initIdx, cmd, data, caught,
                               outcome, errors>>
           ELSE /\ status' = BootStatus(r)
                /\ pc' = "idle"
                /\ outcome' = Exc(r)
                /\ UNCHANGED <<init_commands, op, initIdx, cmd, data, caught,
                               errors>>
    /\ UNCHANGED <<before, initCount>>
    /\ UNCHANGED <<filterVars, readVars>>

\* _await_prompt: console.expect(self.prompt), then the first init command
ExpectPrompt ==
    /\ pc = "prompt"
    /\ \E r \in ExpectResults :
        /\ trace' = Called("expect", "prompt", DefaultTimeout, r)
        /\ chan' = ChanAfter(r)
        /\ IF r = "match"
           THEN /\ IF Len(init_commands) = 0
                   THEN /\ pc' = "idle"
                        /\ outcome' = Returned
                        /\ UNCHANGED <<initIdx, cmd>>
                   ELSE /\ initIdx' = 1
                        /\ cmd' = init_commands[1]
                        /\ pc' = IF NotCommandLineMode(status) THEN "idle"
                                 ELSE "cmd_send"
                        /\ outcome' = IF NotCommandLineMode(status)
                                      THEN Exc("TypeError") ELSE outcome
                /\ UNCHANGED <<status, init_commands, op, data, caught, errors>>
           ELSE Raise(r)
    /\ UNCHANGED <<before, initCount>>
    /\ UNCHANGED <<filterVars, readVars>>

\* run(cmd): _run's readiness check
Run ==
    /\ pc = "idle"
    /\ \E c \in Cmds :
        /\ op' = "run"
        /\ cmd' = c
        /\ trace' = <<>>
        /\ before' = <<>>
        /\ data' = <<>>
        /\ caught' = "none"
        /\ IF NotCommandLineMode(status)
           THEN pc' = "idle" /\ outcome' = NotReady
           ELSE pc' = "cmd_send" /\ outcome' = Pending
    /\ UNCHANGED <<status, chan, init_commands, initIdx, initCount, errors>>
    /\ UNCHANGED <<filterVars, readVars>>

\* _run sending echo $? without waiting for the command's prompt
SendCmd_NoExpect ==
    /\ pc = "cmd_send"
    /\ \E r \in SendResults :
        /\ trace' = Called("sendline", "cmd", cmd, r)
        /\ chan' = ChanAfter(r)
        /\ initCount' = IF op = "activate"
                        THEN [initCount EXCEPT ![initIdx] = @ + 1] ELSE initCount
        /\ IF r = "ok"
           THEN /\ pc' = "echo_send"
                /\ UNCHANGED <<status, init_commands, op, initIdx, cmd, data,
                               caught, outcome, errors>>
           ELSE Raise(r)
    /\ before' = <<>>
    /\ UNCHANGED <<filterVars, readVars>>

\* _run: self.console.sendline(cmp_command)
SendCmd ==
    /\ pc = "cmd_send"
    /\ \E r \in SendResults :
        /\ trace' = Called("sendline", "cmd", cmd, r)
        /\ chan' = ChanAfter(r)
        /\ initCount' = IF op = "activate"
                        THEN [initCount EXCEPT ![initIdx] = @ + 1] ELSE initCount
        /\ IF r = "ok"
           THEN /\ pc' = "cmd_expect"
                /\ UNCHANGED <<status, init_commands, op, initIdx, cmd, data,
                               caught, outcome, errors>>
           ELSE Raise(r)
    /\ before' = <<>>
    /\ UNCHANGED <<filterVars, readVars>>

\* _run: console.expect(self.prompt, timeout=timeout) and the demarcation
ExpectCmd ==
    /\ pc = "cmd_expect"
    /\ \E r \in ExpectResults :
        /\ trace' = Called("expect", "prompt", RunTimeout, r)
        /\ chan' = ChanAfter(r)
        /\ IF r = "match"
           THEN \E b \in Captures :
                  LET dec == CmdCapture[b]
                  IN  IF dec.ok
                      THEN /\ before' = b
                           /\ data' = dec.data
                           /\ pc' = "echo_send"
                           /\ UNCHANGED <<status, init_commands, op, initIdx, cmd,
                                          caught, outcome, errors>>
                      ELSE /\ before' = b
                           /\ Raise("UnicodeDecodeError")
           ELSE before' = before /\ Raise(r)
    /\ UNCHANGED initCount
    /\ UNCHANGED <<filterVars, readVars>>

\* _run: self.console.sendline("echo $?") inside the try
SendEcho ==
    /\ pc = "echo_send"
    /\ \E r \in SendResults :
        /\ trace' = Called("sendline", "echo $?", cmd, r)
        /\ chan' = ChanAfter(r)
        /\ IF r = "ok"
           THEN /\ pc' = "echo_expect"
                /\ UNCHANGED <<status, init_commands, op, initIdx, cmd, data,
                               caught, outcome, errors>>
           ELSE EchoFailed(r)
    /\ before' = <<>>
    /\ UNCHANGED initCount
    /\ UNCHANGED <<filterVars, readVars>>

\* _run: the echo $? expect, int(ret_data[-2]), and the fallback return
ExpectEcho ==
    /\ pc = "echo_expect"
    /\ \E r \in ExpectResults :
        /\ trace' = Called("expect", "prompt", RunTimeout, r)
        /\ chan' = ChanAfter(r)
        /\ IF r = "match"
           THEN \E b \in EchoCaptures :
                  LET es == EchoCapture[b]
                  IN  /\ before' = IF op = "run" THEN b ELSE <<>>
                      /\ IF es.exc # "none" THEN EchoFailed(es.exc)
                         ELSE /\ Finish(data, es.val, "none")
                              /\ UNCHANGED <<status, init_commands, op>>
           ELSE before' = before /\ EchoFailed(r)
    /\ UNCHANGED initCount
    /\ UNCHANGED <<filterVars, readVars>>

\* on_deactivate also closing the console
Deactivate_ClosesConsole ==
    /\ pc = "idle"
    /\ status' = 0
    /\ chan' = "closed"
    /\ op' = "deactivate"
    /\ outcome' = Returned
    /\ trace' = <<>>
    /\ before' = <<>>
    /\ data' = <<>>
    /\ caught' = "none"
    /\ initCount' = [i \in 1..Len(init_commands) |-> 0]
    /\ UNCHANGED <<init_commands, pc, initIdx, cmd, errors>>
    /\ UNCHANGED <<filterVars, readVars>>

\* on_deactivate
Deactivate ==
    /\ pc = "idle"
    /\ status' = 0
    /\ op' = "deactivate"
    /\ outcome' = Returned
    /\ trace' = <<>>
    /\ before' = <<>>
    /\ data' = <<>>
    /\ caught' = "none"
    /\ initCount' = [i \in 1..Len(init_commands) |-> 0]
    /\ UNCHANGED <<chan, init_commands, pc, initIdx, cmd, errors>>
    /\ UNCHANGED <<filterVars, readVars>>

\* get_status
GetStatus ==
    /\ pc = "idle"
    /\ op' = "get_status"
    /\ outcome' = Out("status", <<>>, status)
    /\ trace' = <<>>
    /\ before' = <<>>
    /\ data' = <<>>
    /\ caught' = "none"
    /\ UNCHANGED <<status, chan, init_commands, pc, initIdx, cmd, initCount, errors>>
    /\ UNCHANGED <<filterVars, readVars>>

Next ==
    \/ Activate
    \/ ExpectBoot
    \/ ExpectPrompt
    \/ Run
    \/ SendCmd
    \/ ExpectCmd
    \/ SendEcho
    \/ ExpectEcho
    \/ Deactivate
    \/ GetStatus

Spec == Init /\ [][Next]_vars

\* ------------------------------------- the text pipeline of _run on its own
\* code points the texts are made of: ESC, "[", "0", "m", U+009B, CR, LF
FilterAlphabet == {ESC, LBRACKET, 48, 109, CSI8, CR, LF}

Texts == UNION {[1..n -> FilterAlphabet] : n \in 0..MaxLen}

InitFilter ==
    /\ DriverInit
    /\ init_commands = <<>>
    /\ ReadOff
    /\ ftext \in Texts
    /\ fonce = <<>>
    /\ ftwice = <<>>
    /\ flines = <<>>
    /\ fpc = "input"

\* self.re_vt100.sub("", text, count=1000000)
FilterOnce ==
    /\ fpc = "input"
    /\ fonce' = Filter(ftext)
    /\ fpc' = "once"
    /\ UNCHANGED <<ftext, ftwice, flines, driverVars, readVars>>

\* the same substitution applied to its own result
FilterTwice ==
    /\ fpc = "once"
    /\ ftwice' = Filter(fonce)
    /\ fpc' = "twice"
    /\ UNCHANGED <<ftext, fonce, flines, driverVars, readVars>>

\* data = re_vt100.sub(...).replace("\r", "").split("\n") and data[1:-1]
DemarcateText ==
    /\ fpc = "twice"
    /\ flines' = Demarcate(LinesOf(ftext))
    /\ fpc' = "done"
    /\ UNCHANGED <<ftext, fonce, ftwice, driverVars, readVars>>

NextFilter ==
    \/ FilterOnce
    \/ FilterTwice
    \/ DemarcateText

SpecFilter == InitFilter /\ [][NextFilter]_vars

\* --------------------------------------------------- SimConsoleDriver._read
\* what self._child.stdout.read(size) may give: None, or up to size bytes
ReadOutcomes(size) ==
    {NoData} \cup {Data(b) : b \in UNION {[1..n -> {65, 66}] : n \in 0..size}}

Bytes(b) == [kind |-> "bytes", bytes |-> b]

\* the second read's result handed back without the "is not None" test
SecondReadResult_Unchecked(x) ==
    IF x.none THEN [kind |-> "None", bytes |-> <<>>] ELSE Bytes(x.bytes)

\* _read: "if res is not None: return res" and the final "return b''"
SecondReadResult(x) == IF x.none THEN Bytes(<<>>) ELSE Bytes(x.bytes)

InitRead ==
    /\ DriverInit
    /\ init_commands = <<>>
    /\ FilterOff
    /\ child \in {"running", "exited"}
    /\ rsize \in 1..MaxSize
    /\ rtimeout \in 0..MaxWait
    /\ pending = NoData
    /\ res = NoData
    /\ polls = <<>>
    /\ reads = <<>>
    /\ rret = [kind |-> "pending", bytes |-> <<>>]
    /\ rpc = "call"

\* _read: "if self._child.poll() is not None: raise ExecutionError(...)"
ReadCheckChild ==
    /\ rpc = "call"
    /\ IF child = "exited"
       THEN /\ rret' = [kind |-> "ExecutionError", bytes |-> <<>>]
            /\ rpc' = "done"
       ELSE /\ rret' = rret
            /\ rpc' = "read1"
    /\ UNCHANGED <<child, rsize, rtimeout, pending, res, polls, reads>>
    /\ UNCHANGED <<driverVars, filterVars>>

\* _read: "pending = self._child.stdout.read(size)" and its return
ReadFirst ==
    /\ rpc = "read1"
    /\ \E x \in ReadOutcomes(rsize) :
        /\ pending' = x
        /\ reads' = Append(reads, rsize)
        /\ IF ~x.none
           THEN rret' = Bytes(x.bytes) /\ rpc' = "done"
           ELSE rret' = rret /\ rpc' = "poll"
    /\ UNCHANGED <<child, rsize, rtimeout, res, polls>>
    /\ UNCHANGED <<driverVars, filterVars>>

\* _read: "if self._poll.poll(timeout):" and the final "return b''"
ReadPoll ==
    /\ rpc = "poll"
    /\ \E ready \in BOOLEAN :
        /\ polls' = Append(polls, [timeout |-> rtimeout, ready |-> ready])
        /\ IF ready
           THEN rret' = rret /\ rpc' = "read2"
           ELSE rret' = Bytes(<<>>) /\ rpc' = "done"
    /\ UNCHANGED <<child, rsize, rtimeout, pending, res, reads>>
    /\ UNCHANGED <<driverVars, filterVars>>

\* _read: "res = self._child.stdout.read(size)" and its return
ReadSecond ==
    /\ rpc = "read2"
    /\ \E x \in ReadOutcomes(rsize) :
        /\ res' = x
        /\ reads' = Append(reads, rsize)
        /\ rret' = SecondReadResult(x)
        /\ rpc' = "done"
    /\ UNCHANGED <<child, rsize, rtimeout, pending, polls>>
    /\ UNCHANGED <<driverVars, filterVars>>

NextRead ==
    \/ ReadCheckChild
    \/ ReadFirst
    \/ ReadPoll
    \/ ReadSecond

SpecRead == InitRead /\ [][NextRead]_vars

TypeOK ==
    /\ status \in {0, 1}
    /\ chan \in {"open", "closed"}
    /\ pc \in {"idle", "boot", "prompt", "cmd_send", "cmd_expect", "echo_send",
               "echo_expect"}
    /\ initIdx \in 0..Len(init_commands)

\* ----------------------------------------------------------------- claims
ExpectTimedOut(i) == trace[i].call = "expect" /\ trace[i].res = "TimeoutError"

SendFailed(i) == trace[i].call = "sendline" /\ trace[i].res = "TransportError"

\* the current activation's n-th transport call, the expect of w, was its
\* last so far and ended with r
SyncEndedAt(n, w, r) ==
    /\ op = "activate"
    /\ Len(trace) = n
    /\ trace[n].call = "expect"
    /\ trace[n].what = w
    /\ trace[n].res = r

\* run() has returned after both of its expects matched
RanBothRoundTrips ==
    /\ op = "run"
    /\ pc = "idle"
    /\ Len(trace) = 4
    /\ trace[4].res = "match"

\* the echo $? capture b has no integer on its second-to-last line
Unparseable(b) ==
    LET dec == Decode(b)
        l == LinesOf(dec.text)
    IN  \/ ~dec.ok
        \/ Len(l) < 2
        \/ ~IntParse(l[Len(l) - 1]).ok

HasMarker(d) == Len(d) > 0 /\ NotFoundMatch(d[Len(d)])

C2_BootTimeout ==
    SyncEndedAt(1, "boot_expression", "TimeoutError") =>
        /\ pc = "idle"
        /\ outcome = Exc("TimeoutError")
        /\ status = 0
        /\ \A i \in 1..Len(trace) : trace[i].call # "sendline"

C2_Witness ==
    /\ SyncEndedAt(1, "boot_expression", "TimeoutError")
    /\ pc = "idle"
    /\ outcome = Exc("TimeoutError")
    /\ status = 0

\* C3: when boot_expression matched and the expect of the prompt that follows
\* times out, activate() is aborted with TimeoutError and Readiness is
\* Inactive afterwards.
C3_PromptTimeout ==
    SyncEndedAt(2, "prompt", "TimeoutError") =>
        (pc = "idle" /\ outcome = Exc("TimeoutError") /\ status = 0)

\* C4: Readiness is never Ready while the prompt match or an init command of
\* the current activation is still outstanding.
C4_ReadyOnlyAfterSync ==
    (op = "activate" /\ pc \in {"prompt", "cmd_send", "cmd_expect", "echo_send",
                                "echo_expect"}) => status = 0

\* C5: activate() while Readiness is Ready makes no transport call, runs no
\* init command and leaves Readiness Ready; between two deactivate() calls
\* each init command is submitted at most once.
C5_AtMostOnce == \A i \in 1..Len(init_commands) : initCount[i] <= 1

C5_NoOp ==
    (pc = "idle" /\ status = 1 /\ op' = "activate") =>
        /\ pc' = "idle"
        /\ status' = 1
        /\ trace' = <<>>
        /\ outcome' = Returned
        /\ initCount' = initCount
        /\ chan' = chan

C5_IdempotentActivate == []C5_AtMostOnce /\ [][C5_NoOp]_vars

C5_Witness ==
    /\ op = "activate"
    /\ pc = "idle"
    /\ status = 1
    /\ trace = <<>>
    /\ outcome = Returned
    /\ Len(init_commands) = MaxInit
    /\ \A i \in 1..Len(init_commands) : initCount[i] = 1

\* C6: run() on a Ready driver: when the echo $? capture holds no parseable
\* integer and the last line of the command's output matches the shell-error
\* marker, the Command Result has exit status 255.
C6_MarkerGives255 ==
    (RanBothRoundTrips /\ Unparseable(before) /\ HasMarker(data)) =>
        (outcome.kind = "result" /\ outcome.status = ErrorMarkerStatus)

\* C7: run() on a Ready driver whose command capture succeeded: when the
\* echo $? capture holds no parseable integer and the command's output does
\* not end in a shell-error marker, run() raises nothing and returns a
\* Command Result with exit status -1.
C7_UnknownStatus ==
    (RanBothRoundTrips /\ Unparseable(before) /\ ~HasMarker(data)) =>
        outcome = Out("result", data, 0 - 1)

C7_Witness ==
    /\ RanBothRoundTrips
    /\ before = CapNoStatus
    /\ caught = "ValueError"
    /\ outcome = Out("result", <<<<79, 75>>>>, 0 - 1)

\* C8: run(cmd) on a Ready driver, both expects matched, the second-to-last
\* line of the echo $? capture parses as the integer n: the result is
\* (lines, [], n), lines being the lines of the command capture without the
\* first and the last.
C8_Demarcated ==
    (op = "run" /\ pc = "echo_send") =>
        LET l == LinesOf(Decode(before).text)
        IN  /\ Len(data) = IF Len(l) > 2 THEN Len(l) - 2 ELSE 0
            /\ \A i \in 1..Len(data) : data[i] = l[i + 1]

C8_Parsed ==
    (RanBothRoundTrips /\ ~Unparseable(before)) =>
        LET l == LinesOf(Decode(before).text)
        IN  outcome = [kind |-> "result", lines |-> data, aux |-> <<>>,
                       status |-> IntParse(l[Len(l) - 1]).val]

C8_DataKept == (op = "run" /\ pc \in {"echo_send", "echo_expect"}) => data' = data

C8_ParsedResult == []C8_Demarcated /\ []C8_Parsed /\ [][C8_DataKept]_vars

C8_Witness ==
    /\ RanBothRoundTrips
    /\ before = CapStatus0
    /\ outcome = Out("result", <<<<79, 75>>>>, 0)

\* C9: after an expect made by run() on a Ready driver timed out, run() gives
\* its caller a TimeoutError and never a Command Result.
C9_TimeoutSurfaced ==
    (op = "run" /\ pc = "idle" /\ \E i \in 1..Len(trace) : ExpectTimedOut(i)) =>
        outcome = Exc("TimeoutError")

\* C10: after a sendline made by run() on a Ready driver failed with
\* TransportError, run() gives its caller the TransportError and never a
\* Command Result.
C10_TransportErrorSurfaced ==
    (op = "run" /\ pc = "idle" /\ \E i \in 1..Len(trace) : SendFailed(i)) =>
        outcome = Exc("TransportError")

\* C11: in every Command Result run() returns the exit status is a
\* non-negative integer, 255 or -1, and the auxiliary sequence is empty.
C11_StatusRange ==
    (op = "run" /\ pc = "idle" /\ outcome.kind = "result") =>
        /\ outcome.status >= 0 \/ outcome.status = 0 - 1
        /\ outcome.aux = <<>>

Has(t, c) == \E i \in 1..Len(t) : t[i] = c

\* C12: the Escape-Sequence Filter is idempotent: filter(filter(s)) = filter(s).
C12_FilterIdempotent == fpc \in {"twice", "done"} => ftwice = fonce

\* C13: the filter is the identity on text without the escape marker: for
\* every s that does not contain ESC (0x1b), filter(s) = s.
C13_IdentityWithoutEsc ==
    (fpc \in {"once", "twice", "done"} /\ ~Has(ftext, ESC)) => fonce = ftext

\* C13 as amended: for every s that contains neither ESC (0x1b) nor the
\* one-character introducer U+009B, filter(s) = s.
C13_IdentityWithoutMarkers ==
    (fpc \in {"once", "twice", "done"} /\ ~Has(ftext, ESC) /\ ~Has(ftext, CSI8)) =>
        fonce = ftext

C13_Witness ==
    /\ fpc = "once"
    /\ ftext = <<LBRACKET, 48, 109>>
    /\ fonce = ftext

\* position of the j-th LF of t; 0 for j = 0, Len(t) + 1 past the last one
NthLF(t, j) ==
    LET nl == {i \in 1..Len(t) : t[i] = LF}
    IN  IF j = 0 THEN 0
        ELSE IF j > Cardinality(nl) THEN Len(t) + 1
        ELSE CHOOSE p \in nl : Cardinality({q \in nl : q <= p}) = j

\* C17: when the filtered, CR-stripped text splits on newline into k lines,
\* the lines kept are exactly lines 2..k-1 in order: max(0, k - 2) of them,
\* none at all for one or two lines.
C17_DropFirstAndLast ==
    fpc = "done" =>
        LET t == StripCR(Filter(ftext))
            k == Cardinality({i \in 1..Len(t) : t[i] = LF}) + 1
        IN  /\ Len(flines) = IF k > 2 THEN k - 2 ELSE 0
            /\ \A i \in 1..Len(flines) :
                  flines[i] = SubSeq(t, NthLF(t, i) + 1, NthLF(t, i + 1) - 1)

C17_Witness ==
    /\ fpc = "done"
    /\ ftext = <<LF, 109, CR, LF>>
    /\ flines = <<<<109>>>>

\* the commands the current public call has submitted, in order
Submitted ==
    LET sent == SelectSeq(trace, LAMBDA e : e.call = "sendline" /\ e.what = "cmd")
    IN  [i \in 1..Len(sent) |-> sent[i].num]

AllCallsOk == \A i \in 1..Len(trace) : trace[i].res \in {"ok", "match"}

\* an activate() that had to synchronise is over
ActivationEnded == op = "activate" /\ pc = "idle" /\ trace # <<>>

\* the init commands are submitted in list order, after the two expects
InOrderAfterPrompt ==
    op = "activate" =>
        /\ Len(Submitted) <= Len(init_commands)
        /\ Submitted = SubSeq(init_commands, 1, Len(Submitted))
        /\ \A i \in 1..Len(trace) : trace[i].call = "sendline" => i > 2

CompletedReady ==
    /\ outcome = Returned
    /\ status = 1
    /\ Submitted = init_commands

C15_Step ==
    op' = "deactivate" =>
        /\ status' = 0
        /\ pc' = "idle"
        /\ trace' = <<>>
        /\ chan' = chan
        /\ outcome' = Returned

C15_DeactivateLocal == [][C15_Step]_vars

C15_Witness ==
    /\ op = "deactivate"
    /\ status = 0
    /\ chan = "open"
    /\ trace = <<>>
    /\ Len(init_commands) = MaxInit
    /\ cmd = MaxInit

\* the k-th transport call of one run(): sendline(cmd), expect(prompt,
\* timeout), sendline("echo $?"), expect(prompt, timeout)
IsRunCall(e, k) ==
    IF k \in {1, 3}
    THEN /\ e.call = "sendline"
         /\ e.what = IF k = 1 THEN "cmd" ELSE "echo $?"
         /\ e.num = cmd
    ELSE /\ e.call = "expect"
         /\ e.what = "prompt"
         /\ e.num = RunTimeout

\* C16: within each run() of a single caller on a Ready driver, sendline and
\* expect alternate strictly: sendline(cmd), expect(prompt), sendline(echo $?),
\* expect(prompt); each call is made only after the one before it returned
\* successfully, and a run() is over before the next one sends anything.
C16_Alternation ==
    op = "run" =>
        /\ Len(trace) <= 4
        /\ \A k \in 1..Len(trace) :
              /\ IsRunCall(trace[k], k)
              /\ k < Len(trace) => trace[k].res \in {"ok", "match"}
        /\ pc = "cmd_send" => trace = <<>>
        /\ pc = "cmd_expect" => Len(trace) = 1 /\ trace[1].res = "ok"
        /\ pc = "echo_send" => Len(trace) = 2 /\ trace[2].res = "match"
        /\ pc = "echo_expect" => Len(trace) = 3 /\ trace[3].res = "ok"
        /\ pc \in {"idle", "cmd_send", "cmd_expect", "echo_send", "echo_expect"}

C16_Witness ==
    /\ op = "run"
    /\ pc = "idle"
    /\ Len(trace) = 4
    /\ AllCallsOk
    /\ outcome.kind = "result"

\* C18: _read on a live child never returns None: it returns the first
\* read's result when that is not None; otherwise it polls once with the
\* given timeout and returns the second read's result when the poll reports
\* readiness and that read is not None; in every other case it returns empty
\* bytes.  When the child has exited it raises ExecutionError before reading.
C18_ReadResult ==
    /\ rret.kind # "None"
    /\ Len(polls) <= 1
    /\ rpc = "done" =>
        IF child = "exited"
        THEN rret.kind = "ExecutionError" /\ reads = <<>> /\ polls = <<>>
        ELSE /\ rret.kind = "bytes"
             /\ IF ~pending.none
                THEN rret.bytes = pending.bytes /\ polls = <<>> /\ Len(reads) = 1
                ELSE /\ Len(polls) = 1
                     /\ polls[1].timeout = rtimeout
                     /\ IF polls[1].ready /\ Len(reads) = 2 /\ ~res.none
                        THEN rret.bytes = res.bytes
                        ELSE rret.bytes = <<>>
                     /\ Len(reads) = IF polls[1].ready THEN 2 ELSE 1

C18_Witness ==
    /\ rpc = "done"
    /\ child = "running"
    /\ pending = NoData
    /\ polls = <<[timeout |-> MaxWait, ready |-> TRUE]>>
    /\ res = Data(<<65>>)
    /\ rret = Bytes(<<65>>)

\* activate() ended when the expect after init command i timed out
CmdExpectTimedOut(i) ==
    /\ op = "activate"
    /\ pc = "idle"
    /\ Len(trace) >= 4
    /\ Len(Submitted) = i
    /\ trace[Len(trace) - 1].call = "sendline"
    /\ trace[Len(trace) - 1].what = "cmd"
    /\ Last(trace).call = "expect"
    /\ Last(trace).res = "TimeoutError"

\* C19: when the command-capture expect of init command ci times out during
\* activate(), the TimeoutError leaves activate(), c(i+1)..cn are not
\* submitted and Readiness is Ready; an activate() that follows without a
\* deactivate() makes no transport call, so the rest is not run.
C19_State ==
    \A i \in 1..Len(init_commands) :
        CmdExpectTimedOut(i) =>
            /\ outcome = Exc("TimeoutError")
            /\ status = 1
            /\ Submitted = SubSeq(init_commands, 1, i)
            /\ \A j \in 1..Len(init_commands) :
                  initCount[j] = IF j <= i THEN 1 ELSE 0

C19_Step ==
    ((\E i \in 1..Len(init_commands) : CmdExpectTimedOut(i)) /\ op' = "activate") =>
        /\ pc' = "idle"
        /\ trace' = <<>>
        /\ status' = 1
        /\ initCount' = initCount
        /\ outcome' = Returned

C19_InitTimeoutLeavesReady == []C19_State /\ [][C19_Step]_vars

C19_Witness ==
    /\ CmdExpectTimedOut(1)
    /\ Len(init_commands) = MaxInit
    /\ status = 1
    /\ outcome = Exc("TimeoutError")
    /\ initCount[1] = 1
    /\ initCount[MaxInit] = 0

\* a transport call _run makes for init command c
IsInitCall(e, c) ==
    \/ e.call = "sendline" /\ e.what \in {"cmd", "echo $?"} /\ e.num = c
    \/ e.call = "expect" /\ e.what = "prompt" /\ e.num = RunTimeout

\* the number of init commands submitted in the first k transport calls
SubmittedBy(k) ==
    Len(SelectSeq(SubSeq(trace, 1, k), LAMBDA e : e.call = "sendline" /\ e.what = "cmd"))

\* C20: every activate() made while Readiness is Inactive, also one that
\* follows deactivate() on a Ready driver, synchronises from the beginning:
\* expect(boot_expression, login_timeout) first and before any sendline, then
\* expect(prompt), then all init commands afresh.
C20_State ==
    op = "activate" =>
        /\ pc = "boot" => trace = <<>>
        /\ pc = "prompt" => Len(trace) = 1
        /\ trace # <<>> =>
              /\ trace[1].call = "expect"
              /\ trace[1].what = "boot_expression"
              /\ trace[1].num = LoginTimeout
        /\ Len(trace) >= 2 =>
              /\ trace[1].res = "match"
              /\ trace[2].call = "expect"
              /\ trace[2].what = "prompt"
              /\ trace[2].num = DefaultTimeout
        /\ Len(trace) >= 3 =>
              /\ trace[2].res = "match"
              /\ trace[3].call = "sendline"
              /\ trace[3].what = "cmd"
        /\ Len(Submitted) <= Len(init_commands)
        /\ Submitted = SubSeq(init_commands, 1, Len(Submitted))
        /\ \A k \in 3..Len(trace) :
              IsInitCall(trace[k], init_commands[SubmittedBy(k)])
        /\ (pc = "idle" /\ trace # <<>> /\ outcome = Returned) =>
              Submitted = init_commands

C20_Step ==
    (pc = "idle" /\ status = 0 /\ op' = "activate") =>
        \/ pc' = "boot" /\ trace' = <<>> /\ initIdx' = 0 /\ status' = 0
        \/ UNCHANGED vars

C20_SyncFromStart == []C20_State /\ [][C20_Step]_vars

C20_Witness ==
    /\ op = "activate"
    /\ pc = "prompt"
    /\ Len(trace) = 1
    /\ Len(init_commands) = MaxInit
    /\ cmd = MaxInit
    /\ \A i \in 1..Len(init_commands) : initCount[i] = 0

====
